---- MODULE Spec2Model ----
(***************************************************************************)
(* A model of the WebVFS virtual filesystem (class VFS and the two storage *)
(* drivers).  Every VFS operation is an operator from a state record to a  *)
(* result record [st, err, ret]; the actions apply these operators to the  *)
(* variables.  An async operation is split where the code awaits: its      *)
(* synchronous part runs in the Call action, the rest is an entry of the   *)
(* queue `pending` that the action Settle runs later.                      *)
(*                                                                         *)
(* Strings (paths, names) are sequences of one-character strings.          *)
(* Inode objects are shared by reference between the instance and the      *)
(* MemoryDriver's snapshot (Object.fromEntries copies the table, not the   *)
(* inodes): the snapshot therefore holds the ids, and reads the inodes     *)
(* through the live table.                                                 *)
(***************************************************************************)
EXTENDS Integers, Sequences, FiniteSets, TLC

VARIABLES
    inodes,       \* VFS.inodes: id -> Inode
    dirs,         \* VFS.dirs: dirId -> entry map (sequence of [name, id], insertion order)
    nextInodeId,  \* VFS.nextInodeId
    nextFd,       \* VFS.nextFd
    handles,      \* VFS.handles: fd -> FileHandle
    cwdId,        \* VFS.cwdId
    dirtyInodes,  \* VFS.dirtyInodes
    dirtyDirs,    \* VFS.dirtyDirs
    driver,       \* the StorageDriver behind the instance (MemoryDriver or IndexedDbDriver)
    pending,      \* continuations waiting behind an await, in queue order
    now           \* Date.now()

vars == <<inodes, dirs, nextInodeId, nextFd, handles, cwdId, dirtyInodes,
          dirtyDirs, driver, pending, now>>

(***************************************************************************)
(* Bounds of the model.                                                    *)
(***************************************************************************)
MaxInodeId == 3     \* the largest inode id a creation may allocate
MaxFd == 4          \* the largest fd open may allocate
MaxFileLen == 2     \* a write that would grow a file past this is not issued
MaxPending == 2     \* continuations in flight
MaxTime == 1        \* the clock stops here

(***************************************************************************)
(* Strings.                                                                *)
(***************************************************************************)
DOT == <<".">>
DOTDOT == <<".", ".">>
ROOTNAME == <<"/">>

\* the names a path of the model may use as a segment
Segs == {<<"a">>, <<"1">>, DOT, DOTDOT}

RECURSIVE JoinSegs(_)
JoinSegs(ss) ==
    IF ss = <<>> THEN <<>>
    ELSE IF Len(ss) = 1 THEN ss[1]
    ELSE ss[1] \o <<"/">> \o JoinSegs(Tail(ss))

\* no segment, one or two
SegSeqs == {<<>>} \cup {<<x>> : x \in Segs} \cup {<<x, y>> : x \in Segs, y \in Segs}

\* the path strings the operations are called with: "", "/", "//", "a", "/a/", "a/..", ...
Paths ==
    {(IF abs THEN <<"/">> ELSE <<>>) \o JoinSegs(ss) \o (IF trail THEN <<"/">> ELSE <<>>) :
        abs \in BOOLEAN, ss \in SegSeqs, trail \in BOOLEAN}

\* s.replace(/\/+$/, "")
RECURSIVE StripTrailingSlashes(_)
StripTrailingSlashes(p) ==
    IF Len(p) > 0 /\ p[Len(p)] = "/"
    THEN StripTrailingSlashes(SubSeq(p, 1, Len(p) - 1))
    ELSE p

\* a startsWith that never finds the slash: every path is taken as relative
StartsWithSlashNever(p) == FALSE

\* s.startsWith("/")
StartsWithSlash(p) == Len(p) > 0 /\ p[1] = "/"

\* s.split("/").filter(Boolean): the maximal runs of characters other than "/"
RECURSIVE SplitFrom(_, _, _)
SplitFrom(p, i, cur) ==
    IF i > Len(p) THEN (IF cur = <<>> THEN <<>> ELSE <<cur>>)
    ELSE IF p[i] = "/"
         THEN (IF cur = <<>> THEN <<>> ELSE <<cur>>) \o SplitFrom(p, i + 1, <<>>)
         ELSE SplitFrom(p, i + 1, Append(cur, p[i]))

SplitPath(p) == SplitFrom(p, 1, <<>>)

\* path.split("/").filter(Boolean).pop()
LastSegment(path) == LET parts == SplitPath(path) IN parts[Len(parts)]

(***************************************************************************)
(* Map<string, number> as a sequence of entries, and the plain object that *)
(* Object.fromEntries makes of it: an object lists its integer-like keys   *)
(* first, in ascending order, then the other keys in insertion order.      *)
(***************************************************************************)
MapHas(m, k) == \E i \in 1..Len(m) : m[i].name = k
MapGet(m, k) == m[CHOOSE i \in 1..Len(m) : m[i].name = k].id
MapSet(m, k, v) ==
    IF MapHas(m, k)
    THEN [i \in 1..Len(m) |-> IF m[i].name = k THEN [name |-> k, id |-> v] ELSE m[i]]
    ELSE Append(m, [name |-> k, id |-> v])
MapPairs(m) == {<<m[i].name, m[i].id>> : i \in 1..Len(m)}

DigitVal(c) ==
    CASE c = "0" -> 0 [] c = "1" -> 1 [] c = "2" -> 2 [] c = "3" -> 3 [] c = "4" -> 4
      [] c = "5" -> 5 [] c = "6" -> 6 [] c = "7" -> 7 [] c = "8" -> 8 [] c = "9" -> 9
      [] OTHER -> -1

\* a canonical array index: digits only, no leading zero
IsIndexKey(k) ==
    /\ Len(k) > 0
    /\ \A i \in 1..Len(k) : DigitVal(k[i]) >= 0
    /\ (Len(k) > 1 => k[1] # "0")

RECURSIVE IndexVal(_)
IndexVal(k) == IF k = <<>> THEN 0 ELSE 10 * IndexVal(SubSeq(k, 1, Len(k) - 1)) + DigitVal(k[Len(k)])

RECURSIVE SortedIndexEntries(_)
SortedIndexEntries(es) ==
    IF es = {} THEN <<>>
    ELSE LET e == CHOOSE x \in es : \A y \in es : IndexVal(x.name) <= IndexVal(y.name)
         IN <<e>> \o SortedIndexEntries(es \ {e})

ObjFromEntries(m) ==
    SortedIndexEntries({m[i] : i \in {j \in 1..Len(m) : IsIndexKey(m[j].name)}})
        \o SelectSeq(m, LAMBDA e : ~IsIndexKey(e.name))

\* new Map(Object.entries(obj)): the object's entries in the object's order
MapFromObj(o) == o

(***************************************************************************)
(* The instance and its backend as one record, and the result of a call.   *)
(***************************************************************************)
S ==
    [inodes |-> inodes, dirs |-> dirs, nextInodeId |-> nextInodeId, nextFd |-> nextFd,
     handles |-> handles, cwdId |-> cwdId, dirtyInodes |-> dirtyInodes,
     dirtyDirs |-> dirtyDirs, driver |-> driver, pending |-> pending]

UNDEF == 0      \* an undefined inode (0 is no inode id)

Result(s, e, v) == [st |-> s, err |-> e, ret |-> v]
Fail(s, e) == Result(s, e, UNDEF)

FPut(f, k, v) == [x \in DOMAIN f \cup {k} |-> IF x = k THEN v ELSE f[x]]
EmptyFn == [x \in {} |-> x]

FilePayload(bytes) == [tag |-> "file", file |-> bytes]
NoPayload == [tag |-> "undefined"]

\* node.payload?.file ?? new Uint8Array()
FileBytes(node) == IF node.payload.tag = "file" THEN node.payload.file ELSE <<>>

(***************************************************************************)
(* The storage drivers.                                                    *)
(***************************************************************************)
DriverKinds == {"memory", "idb"}

\* a driver nothing was ever flushed to
NewDriver(kind) ==
    IF kind = "memory"
    THEN [kind |-> "memory", has |-> FALSE, inodes |-> {}, dirs |-> EmptyFn]
    ELSE [kind |-> "idb", inodes |-> EmptyFn, dirs |-> EmptyFn]

NoTx == [inodes |-> EmptyFn, dirs |-> EmptyFn]

\* the delta flush() builds: fullSnapshot.inodes and changes.inodes hold the inode
\* objects themselves (by id here), the entry maps are copied into plain objects
Delta(s) ==
    [fullSnapshot |->
        [inodes |-> DOMAIN s.inodes,
         dirs |-> [d \in DOMAIN s.dirs |-> ObjFromEntries(s.dirs[d])]],
     changes |->
        [inodes |-> s.dirtyInodes,
         dirs |-> [d \in s.dirtyDirs |-> ObjFromEntries(s.dirs[d])]]]

\* MemoryDriver.flushDelta: keeps delta.fullSnapshot
MemoryFlushDelta(d, delta) ==
    [d EXCEPT !.has = TRUE, !.inodes = delta.fullSnapshot.inodes,
              !.dirs = delta.fullSnapshot.dirs]

\* IndexedDbDriver.flushDelta: puts a structured clone of every changed inode and
\* entry map in one transaction
IdbPuts(s, delta) ==
    [inodes |-> [i \in delta.changes.inodes |-> s.inodes[i]],
     dirs |-> delta.changes.dirs]

\* the transaction completes: its puts reach the object stores
IdbCommit(d, tx) ==
    IF d.kind = "idb"
    THEN [d EXCEPT !.inodes = [i \in DOMAIN @ \cup DOMAIN tx.inodes |->
                                  IF i \in DOMAIN tx.inodes THEN tx.inodes[i] ELSE @[i]],
                   !.dirs = [i \in DOMAIN @ \cup DOMAIN tx.dirs |->
                                  IF i \in DOMAIN tx.dirs THEN tx.dirs[i] ELSE @[i]]]
    ELSE d

\* loadFS(): the snapshot {inodes, dirs} the driver returns
LoadFS(s) ==
    IF s.driver.kind = "memory"
    THEN [inodes |-> [i \in s.driver.inodes |-> s.inodes[i]], dirs |-> s.driver.dirs]
    ELSE [inodes |-> s.driver.inodes, dirs |-> s.driver.dirs]

(***************************************************************************)
(* flush(), up to its await: nothing when both dirty sets are empty, else  *)
(* the delta is handed to the driver and the rest of flush (and of the     *)
(* operation `op` that awaits it) is queued.                               *)
(***************************************************************************)
FlushEntry(op, fd, len, tx) == [kind |-> "flush", op |-> op, fd |-> fd, len |-> len, tx |-> tx]

\* a flush that hands a delta to the driver whether or not anything is dirty
flushAlways(s, op, fd, len) ==
    IF \E d \in s.dirtyDirs : d \notin DOMAIN s.dirs
    THEN Fail(s, "TypeError")
    ELSE LET delta == Delta(s)
             tx == IF s.driver.kind = "idb" THEN IdbPuts(s, delta) ELSE NoTx
             drv == IF s.driver.kind = "memory"
                    THEN MemoryFlushDelta(s.driver, delta)
                    ELSE s.driver
         IN Fail([s EXCEPT !.driver = drv,
                           !.pending = Append(@, FlushEntry(op, fd, len, tx))], "OK")

flush(s, op, fd, len) ==
    IF s.dirtyInodes = {} /\ s.dirtyDirs = {}
    THEN Fail(s, "OK")
    ELSE IF \E d \in s.dirtyDirs : d \notin DOMAIN s.dirs
    THEN Fail(s, "TypeError")
    ELSE LET delta == Delta(s)
             tx == IF s.driver.kind = "idb" THEN IdbPuts(s, delta) ELSE NoTx
             drv == IF s.driver.kind = "memory"
                    THEN MemoryFlushDelta(s.driver, delta)
                    ELSE s.driver
         IN Fail([s EXCEPT !.driver = drv,
                           !.pending = Append(@, FlushEntry(op, fd, len, tx))], "OK")

\* the head of the queue runs.  A flush whose driver call succeeded clears both
\* dirty sets and lets the operation go on (write: h.offset += buf.length, one
\* turn of the queue later); one whose driver call failed rejects.
SettleHead(s, ok) ==
    LET e == Head(s.pending)
        rest == Tail(s.pending)
    IN IF e.kind = "flush"
       THEN IF ok
            THEN [s EXCEPT !.driver = IdbCommit(@, e.tx),
                           !.dirtyInodes = {},
                           !.dirtyDirs = {},
                           !.pending = IF e.op = "write"
                                       THEN Append(rest, [e EXCEPT !.kind = "cont"])
                                       ELSE rest]
            ELSE [s EXCEPT !.pending = rest]
       ELSE [s EXCEPT !.handles = IF e.fd \in DOMAIN @
                                  THEN [@ EXCEPT ![e.fd].offset = @ + e.len]
                                  ELSE @,
                      !.pending = rest]

\* the outcomes a driver call can have: MemoryDriver.flushDelta never rejects
Outcomes(s) == IF s.driver.kind = "memory" THEN {TRUE} ELSE BOOLEAN

\* the caller awaits: the queue runs until it is empty, every flush in it ending `ok`
RECURSIVE Await(_, _)
Await(s, ok) == IF s.pending = <<>> THEN s ELSE Await(SettleHead(s, ok), ok)

(***************************************************************************)
(* Path resolution.                                                        *)
(***************************************************************************)
\* child(dirId, name): the id of the child inode, UNDEF when there is none
child(s, dirId, name) ==
    IF dirId \notin DOMAIN s.dirs THEN UNDEF
    ELSE IF ~MapHas(s.dirs[dirId], name) THEN UNDEF
    ELSE IF MapGet(s.dirs[dirId], name) \notin DOMAIN s.inodes THEN UNDEF
    ELSE MapGet(s.dirs[dirId], name)

Resolved(t, p) == [err |-> "OK", target |-> t, parent |-> p]
ResolveError(e) == [err |-> e, target |-> UNDEF, parent |-> UNDEF]

\* a resolve loop without the clamp: ".." at the root looks inode 0 up and finds nothing
RECURSIVE WalkUnclamped(_, _, _, _, _)
WalkUnclamped(s, parts, i, cur, parent) ==
    IF i > Len(parts) THEN Resolved(cur, parent)
    ELSE LET seg == parts[i] IN
        IF seg = DOT THEN WalkUnclamped(s, parts, i + 1, cur, parent)
        ELSE IF seg = DOTDOT
        THEN IF s.inodes[cur].parent = 0
             THEN Resolved(UNDEF, cur)
             ELSE WalkUnclamped(s, parts, i + 1, s.inodes[cur].parent, s.inodes[cur].parent)
        ELSE IF s.inodes[cur].type # "dir" THEN ResolveError("ENOTDIR")
        ELSE LET c == child(s, cur, seg) IN
             IF c = UNDEF THEN Resolved(UNDEF, cur)
             ELSE WalkUnclamped(s, parts, i + 1, c, cur)

\* a resolve loop that looks a name up under any cursor, directory or not
RECURSIVE WalkAnyCursor(_, _, _, _, _)
WalkAnyCursor(s, parts, i, cur, parent) ==
    IF i > Len(parts) THEN Resolved(cur, parent)
    ELSE LET seg == parts[i] IN
        IF seg = DOT THEN WalkAnyCursor(s, parts, i + 1, cur, parent)
        ELSE IF seg = DOTDOT
        THEN IF s.inodes[cur].parent = 0
             THEN WalkAnyCursor(s, parts, i + 1, cur, parent)
             ELSE LET up == s.inodes[cur].parent
                      upParent == IF up # 1
                                  THEN (IF s.inodes[up].parent # 0 THEN s.inodes[up].parent ELSE 1)
                                  ELSE up
                  IN WalkAnyCursor(s, parts, i + 1, up, upParent)
        ELSE LET c == child(s, cur, seg) IN
             IF c = UNDEF THEN Resolved(UNDEF, cur)
             ELSE WalkAnyCursor(s, parts, i + 1, c, cur)

\* the loop of resolve over parts[i..]; cur and parent are inode ids
RECURSIVE Walk(_, _, _, _, _)
Walk(s, parts, i, cur, parent) ==
    IF i > Len(parts) THEN Resolved(cur, parent)
    ELSE LET seg == parts[i] IN
        IF seg = DOT THEN Walk(s, parts, i + 1, cur, parent)
        ELSE IF seg = DOTDOT
        THEN IF s.inodes[cur].parent = 0
             THEN Walk(s, parts, i + 1, cur, parent)
             ELSE LET up == s.inodes[cur].parent
                      upParent == IF up # 1
                                  THEN (IF s.inodes[up].parent # 0 THEN s.inodes[up].parent ELSE 1)
                                  ELSE up
                  IN Walk(s, parts, i + 1, up, upParent)
        ELSE IF s.inodes[cur].type # "dir" THEN ResolveError("ENOTDIR")
        ELSE LET c == child(s, cur, seg) IN
             IF c = UNDEF THEN Resolved(UNDEF, cur)
             ELSE Walk(s, parts, i + 1, c, cur)

resolve(s, path) ==
    IF path = <<>> THEN ResolveError("EmptyPath")
    ELSE LET normalizePath == IF path = <<"/">> THEN path ELSE StripTrailingSlashes(path)
             isAbs == StartsWithSlash(normalizePath)
             start == IF isAbs THEN 1 ELSE s.cwdId
             parts == SplitPath(normalizePath)
         IN IF parts = <<>> /\ isAbs THEN Resolved(1, 1)
            ELSE Walk(s, parts, 1, start, start)

\* a resolve that marks the inode it found, as cd does
resolveCallMarking(s, path) ==
    LET r == resolve(s, path)
    IN [st |-> IF r.err = "OK" /\ r.target # UNDEF
               THEN [s EXCEPT !.dirtyInodes = @ \cup {r.target}]
               ELSE s,
        err |-> r.err, ret |-> r]

\* resolve(path) as a call on the instance: it assigns no field and calls no driver
resolveCall(s, path) == [st |-> s, err |-> resolve(s, path).err, ret |-> resolve(s, path)]

\* s.replace(/\/\//g, "/"): left to right, each "//" found becomes "/"
RECURSIVE ReplaceDoubleSlash(_)
ReplaceDoubleSlash(p) ==
    IF Len(p) < 2 THEN p
    ELSE IF p[1] = "/" /\ p[2] = "/"
         THEN <<"/">> \o ReplaceDoubleSlash(SubSeq(p, 3, Len(p)))
         ELSE <<p[1]>> \o ReplaceDoubleSlash(Tail(p))

RECURSIVE PathUp(_, _, _)
PathUp(s, id, path) ==
    IF s.inodes[id].parent = 0 THEN path
    ELSE LET up == s.inodes[id].parent
         IN PathUp(s, up, s.inodes[up].name \o <<"/">> \o path)

getCurrentPath(s) ==
    LET n == s.inodes[s.cwdId].name
    IN ReplaceDoubleSlash(PathUp(s, s.cwdId, IF n = <<>> THEN <<"/">> ELSE n))

(***************************************************************************)
(* The operations of VFS.  `t` is Date.now() at the call.                  *)
(***************************************************************************)
Modes == {<<"r">>, <<"w">>, <<"r", "w">>}

\* Includes, were every mode to include every capability
IncludesAlways(mode, c) == TRUE

\* mode.includes(c)
Includes(mode, c) == \E i \in 1..Len(mode) : mode[i] = c

NewFile(id, name, parentId, t) ==
    [id |-> id, type |-> "file", name |-> name, parent |-> parentId, mode |-> 420,
     uid |-> 0, gid |-> 0, ctime |-> t, mtime |-> t, atime |-> t, size |-> 0,
     links |-> 1, payload |-> FilePayload(<<>>)]

\* a directory inode made like a file inode: it carries a byte payload
NewDirWithPayload(id, name, parentId, t) ==
    [NewFile(id, name, parentId, t) EXCEPT !.type = "dir", !.mode = 493, !.links = 2]

NewDir(id, name, parentId, t) ==
    [id |-> id, type |-> "dir", name |-> name, parent |-> parentId, mode |-> 493,
     uid |-> 0, gid |-> 0, ctime |-> t, mtime |-> t, atime |-> t, size |-> 0,
     links |-> 2, payload |-> NoPayload]

markDirtyInode(s, id) == [s EXCEPT !.dirtyInodes = @ \cup {id}]
\* markDirtyDir, were it to mark nothing
markDirtyDirNever(s, id) == s

markDirtyDir(s, id) == [s EXCEPT !.dirtyDirs = @ \cup {id}]

\* this.dirs.get(parentId)!.set(name, id): a TypeError when the map is missing
HasMap(s, dirId) == dirId \in DOMAIN s.dirs
AddEntry(s, parentId, name, id) == [s EXCEPT !.dirs[parentId] = MapSet(@, name, id)]

\* the end of open: the handle, atime, the dirty marks and the flush nobody awaits
\* OpenHandle, were it to use nextFd without advancing it
OpenHandleSameFd(s, fileId, parentId, mode, t) ==
    LET fd == s.nextFd
        s1 == [s EXCEPT !.handles = FPut(@, fd, [fd |-> fd, inodeId |-> fileId,
                                                 offset |-> 0, mode |-> mode]),
                        !.inodes[fileId].atime = t]
        s2 == markDirtyDir(markDirtyInode(s1, fileId), parentId)
    IN Result(flush(s2, "open", fd, 0).st, "OK", fd)

\* OpenHandle, were it to hand out the lowest free fd instead of nextFd++
OpenHandleLowestFd(s, fileId, parentId, mode, t) ==
    LET fd == CHOOSE f \in 3..s.nextFd :
                  f \notin DOMAIN s.handles /\ \A g \in 3..(f - 1) : g \in DOMAIN s.handles
        s1 == [s EXCEPT !.nextFd = IF fd = @ THEN fd + 1 ELSE @,
                        !.handles = FPut(@, fd, [fd |-> fd, inodeId |-> fileId,
                                                 offset |-> 0, mode |-> mode]),
                        !.inodes[fileId].atime = t]
        s2 == markDirtyDir(markDirtyInode(s1, fileId), parentId)
    IN Result(flush(s2, "open", fd, 0).st, "OK", fd)

OpenHandle(s, fileId, parentId, mode, t) ==
    LET fd == s.nextFd
        s1 == [s EXCEPT !.nextFd = fd + 1,
                        !.handles = FPut(@, fd, [fd |-> fd, inodeId |-> fileId,
                                                 offset |-> 0, mode |-> mode]),
                        !.inodes[fileId].atime = t]
        s2 == markDirtyDir(markDirtyInode(s1, fileId), parentId)
    IN Result(flush(s2, "open", fd, 0).st, "OK", fd)

open(s, path, mode, t) ==
    LET r == resolve(s, path) IN
    IF r.err # "OK" THEN Fail(s, r.err)
    ELSE IF r.parent = UNDEF \/ s.inodes[r.parent].type # "dir" THEN Fail(s, "ENOTDIR")
    ELSE IF r.target = UNDEF
    THEN IF ~Includes(mode, "w") THEN Fail(s, "ENOENT")
         ELSE LET name == LastSegment(path)
                  id == s.nextInodeId
                  s1 == [s EXCEPT !.nextInodeId = id + 1,
                                  !.inodes = FPut(@, id, NewFile(id, name, r.parent, t))]
              IN IF ~HasMap(s1, r.parent) THEN Fail(s1, "TypeError")
                 ELSE OpenHandle(AddEntry(s1, r.parent, name, id), id, r.parent, mode, t)
    ELSE IF s.inodes[r.target].type # "file" THEN Fail(s, "EISDIR")
    ELSE OpenHandle(s, r.target, r.parent, mode, t)

\* Slice, were it to take the byte at `to` as well
SliceInclusive(data, from, to) ==
    LET e == IF to + 1 > Len(data) THEN Len(data) ELSE to + 1
        b == IF from > Len(data) THEN Len(data) ELSE from
    IN IF e <= b THEN <<>> ELSE SubSeq(data, b + 1, e)

\* data.slice(from, to) of a typed array, for 0 <= from
Slice(data, from, to) ==
    LET e == IF to < 0 THEN (IF Len(data) + to < 0 THEN 0 ELSE Len(data) + to)
             ELSE IF to > Len(data) THEN Len(data) ELSE to
        b == IF from > Len(data) THEN Len(data) ELSE from
    IN IF e <= b THEN <<>> ELSE SubSeq(data, b + 1, e)

\* read, were it to slice from the start of the data instead of from h.offset
readFromStart(s, fd, size, t) ==
    IF fd \notin DOMAIN s.handles \/ ~Includes(s.handles[fd].mode, "r")
    THEN Fail(s, "EBADF")
    ELSE LET h == s.handles[fd]
             data == FileBytes(s.inodes[h.inodeId])
             slice == Slice(data, 0, size)
         IN Result([s EXCEPT !.handles[fd].offset = @ + Len(slice),
                             !.inodes[h.inodeId].atime = t],
                   "OK", slice)

read(s, fd, size, t) ==
    IF fd \notin DOMAIN s.handles \/ ~Includes(s.handles[fd].mode, "r")
    THEN Fail(s, "EBADF")
    ELSE LET h == s.handles[fd]
             data == FileBytes(s.inodes[h.inodeId])
             slice == Slice(data, h.offset, h.offset + size)
         IN Result([s EXCEPT !.handles[fd].offset = @ + Len(slice),
                             !.inodes[h.inodeId].atime = t],
                   "OK", slice)

\* WriteBytes, were it to append buf whatever the offset
WriteBytesAppend(oldData, buf, offset) == oldData \o buf

\* new Uint8Array(newLen), then set(oldData, 0) and set(buf, offset)
WriteBytes(oldData, buf, offset) ==
    LET newLen == IF Len(oldData) > offset + Len(buf) THEN Len(oldData) ELSE offset + Len(buf)
    IN [i \in 1..newLen |->
            IF i > offset /\ i <= offset + Len(buf) THEN buf[i - offset]
            ELSE IF i <= Len(oldData) THEN oldData[i]
            ELSE 0]

\* write up to `await this.flush()`; h.offset += buf.length runs after the await
write(s, fd, buf, t) ==
    IF fd \notin DOMAIN s.handles \/ ~Includes(s.handles[fd].mode, "w")
    THEN Fail(s, "EBADF")
    ELSE LET h == s.handles[fd]
             node == s.inodes[h.inodeId]
             newData == WriteBytes(FileBytes(node), buf, h.offset)
             s1 == [s EXCEPT !.inodes[node.id].payload = FilePayload(newData),
                             !.inodes[node.id].size = Len(newData),
                             !.inodes[node.id].mtime = t,
                             !.inodes[node.id].atime = t]
             s2 == markDirtyDir(markDirtyInode(s1, node.id), node.parent)
         IN flush(s2, "write", fd, Len(buf))

cleanPayload(s, fd, t) ==
    IF fd \notin DOMAIN s.handles \/ ~Includes(s.handles[fd].mode, "w")
    THEN Fail(s, "EBADF")
    ELSE LET node == s.inodes[s.handles[fd].inodeId] IN
         IF node.type # "file" THEN Fail(s, "EISDIR")
         ELSE LET s1 == [s EXCEPT !.inodes[node.id].payload = FilePayload(<<>>),
                                  !.inodes[node.id].size = 0,
                                  !.inodes[node.id].mtime = t,
                                  !.inodes[node.id].atime = t]
                  s2 == markDirtyDir(markDirtyInode(s1, node.id), node.parent)
              IN flush(s2, "cleanPayload", fd, 0)

\* this.handles.delete(fd)
close(s, fd) ==
    IF fd \notin DOMAIN s.handles THEN Fail(s, "EBADF")
    ELSE Fail([s EXCEPT !.handles = [f \in DOMAIN @ \ {fd} |-> @[f]]], "OK")

mkdir(s, path, t) ==
    LET r == resolve(s, path) IN
    IF r.err # "OK" THEN Fail(s, r.err)
    ELSE IF r.target # UNDEF THEN Fail(s, "EEXIST")
    ELSE LET name == LastSegment(path)
             id == s.nextInodeId
             s1 == [s EXCEPT !.nextInodeId = id + 1,
                             !.inodes = FPut(@, id, NewDir(id, name, r.parent, t)),
                             !.dirs = FPut(@, id, <<>>)]
         IN IF ~HasMap(s1, r.parent) THEN Fail(s1, "TypeError")
            ELSE flush(markDirtyDir(markDirtyInode(AddEntry(s1, r.parent, name, id), id),
                                    r.parent),
                       "mkdir", 0, 0)

\* a cd that enters whatever the path leads to, directory or not
cdAnyTarget(s, path, t) ==
    LET r == resolve(s, path) IN
    IF r.err # "OK" THEN Fail(s, r.err)
    ELSE IF r.target = UNDEF THEN Fail(s, "ENOENT")
    ELSE LET s1 == [s EXCEPT !.cwdId = r.target, !.inodes[r.target].atime = t]
         IN Fail(flush(markDirtyInode(s1, r.target), "cd", 0, 0).st, "OK")

cd(s, path, t) ==
    LET r == resolve(s, path) IN
    IF r.err # "OK" THEN Fail(s, r.err)
    ELSE IF r.target = UNDEF \/ s.inodes[r.target].type # "dir" THEN Fail(s, "ENOENT")
    ELSE LET s1 == [s EXCEPT !.cwdId = r.target, !.inodes[r.target].atime = t]
         IN Fail(flush(markDirtyInode(s1, r.target), "cd", 0, 0).st, "OK")

\* one record of ls: [name, type, id]
LsRecord(s, e) == [name |-> e.name, type |-> s.inodes[e.id].type, id |-> s.inodes[e.id].id]

\* ls(path); ls() and ls("") list getCurrentPath()
ls(s, path) ==
    LET p == IF path = <<>> THEN getCurrentPath(s) ELSE path
        r == resolve(s, p)
    IN IF r.err # "OK" THEN Fail(s, r.err)
       ELSE IF r.target = UNDEF \/ s.inodes[r.target].type # "dir" THEN Fail(s, "ENOENT")
       ELSE IF ~HasMap(s, r.target) THEN Result(s, "OK", <<>>)
       ELSE LET shown == SelectSeq(s.dirs[r.target],
                                   LAMBDA e : e.name # DOT /\ e.name # DOTDOT)
            IN IF \E i \in 1..Len(shown) : shown[i].id \notin DOMAIN s.inodes
               THEN Fail(s, "TypeError")
               ELSE Result(s, "OK", [i \in 1..Len(shown) |-> LsRecord(s, shown[i])])

touch(s, path, t) ==
    LET r == resolve(s, path) IN
    IF r.err # "OK" THEN Fail(s, r.err)
    ELSE IF r.target # UNDEF THEN Fail(s, "EEXIST")
    ELSE LET name == LastSegment(path)
             id == s.nextInodeId
             s1 == [s EXCEPT !.nextInodeId = id + 1,
                             !.inodes = FPut(@, id, NewFile(id, name, r.parent, t))]
         IN IF ~HasMap(s1, r.parent) THEN Fail(s1, "TypeError")
            ELSE flush(markDirtyDir(markDirtyInode(AddEntry(s1, r.parent, name, id), id),
                                    r.parent),
                       "touch", 0, 0)

\* cat up to `await this.flush()`; a Uint8Array, empty or not, is truthy
cat(s, path, t) ==
    LET r == resolve(s, path) IN
    IF r.err # "OK" THEN Fail(s, r.err)
    ELSE IF r.target = UNDEF \/ s.inodes[r.target].type # "file" THEN Fail(s, "ENOENT")
    ELSE IF s.inodes[r.target].payload.tag # "file" THEN Fail(s, "ENOENT")
    ELSE LET s1 == [s EXCEPT !.inodes[r.target].atime = t]
             f == flush(markDirtyInode(s1, r.target), "cat", 0, 0)
         IN Result(f.st, f.err, s.inodes[r.target].payload.file)

sync(s) == flush(s, "sync", 0, 0)

(***************************************************************************)
(* Construction: new VFS(driver), bootstrap() and VFS.create(driver).      *)
(***************************************************************************)
NewVFS(d) ==
    [inodes |-> EmptyFn, dirs |-> EmptyFn, nextInodeId |-> 2, nextFd |-> 3,
     handles |-> EmptyFn, cwdId |-> 1, dirtyInodes |-> {}, dirtyDirs |-> {},
     driver |-> d, pending |-> <<>>]

\* RootInode, were the root its own parent
RootInodeOwnParent(t) ==
    [id |-> 1, type |-> "dir", name |-> ROOTNAME, parent |-> 1, mode |-> 493,
     uid |-> 0, gid |-> 0, ctime |-> t, mtime |-> t, atime |-> t, size |-> 0,
     links |-> 2, payload |-> NoPayload]

RootInode(t) ==
    [id |-> 1, type |-> "dir", name |-> ROOTNAME, parent |-> 0, mode |-> 493,
     uid |-> 0, gid |-> 0, ctime |-> t, mtime |-> t, atime |-> t, size |-> 0,
     links |-> 2, payload |-> NoPayload]

\* MaxOf, were it to take the least id
MinOf(ids) == CHOOSE m \in ids : \A i \in ids : m <= i

MaxOf(ids) == CHOOSE m \in ids : \A i \in ids : i <= m

\* bootstrap() of a new instance on driver d, whose loadFS() returned snap; the
\* first boot awaits its flush, which ends `ok`
bootstrap(d, snap, t, ok) ==
    IF DOMAIN snap.inodes # {}
    THEN [NewVFS(d) EXCEPT
            !.inodes = snap.inodes,
            !.dirs = [k \in DOMAIN snap.dirs |-> MapFromObj(snap.dirs[k])],
            !.nextInodeId = MaxOf(DOMAIN snap.inodes) + 1]
    ELSE LET v == [NewVFS(d) EXCEPT !.inodes = FPut(@, 1, RootInode(t)),
                                    !.dirs = FPut(@, 1, <<>>),
                                    !.nextInodeId = 2]
         IN Await(flush(markDirtyDir(markDirtyInode(v, 1), 1), "bootstrap", 0, 0).st, ok)

\* initRoot()
initRoot(v, t) ==
    [v EXCEPT !.inodes = FPut(@, 1, RootInode(t)), !.dirs = FPut(@, 1, <<>>)]

\* VFS.create(d), d being the driver of state s
create(s, t) ==
    LET v == bootstrap(s.driver, LoadFS(s), t, TRUE)
    IN IF 1 \notin DOMAIN v.inodes THEN initRoot(v, t) ELSE v

\* the inode table seen through instance b, restored earlier from the driver that
\* instance a uses, once a is in state a: bootstrap keeps the inode objects of the
\* snapshot, which for MemoryDriver are the objects of a's own table; IndexedDB
\* returned clones
ObservedInodes(b, a) ==
    IF a.driver.kind = "memory"
    THEN [i \in DOMAIN b.inodes |-> a.inodes[i]]
    ELSE b.inodes

\* VFS.create on a driver of the given kind that nothing was flushed to
createFresh(kind, t) == create(NewVFS(NewDriver(kind)), t)

(***************************************************************************)
(* The state machine.                                                      *)
(***************************************************************************)
InitOn(kind) ==
    LET v == createFresh(kind, 0) IN
    /\ inodes = v.inodes
    /\ dirs = v.dirs
    /\ nextInodeId = v.nextInodeId
    /\ nextFd = v.nextFd
    /\ handles = v.handles
    /\ cwdId = v.cwdId
    /\ dirtyInodes = v.dirtyInodes
    /\ dirtyDirs = v.dirtyDirs
    /\ driver = v.driver
    /\ pending = v.pending
    /\ now = 0

Init == InitOn("memory")

\* the call stays within the bounds of the model
WithinBounds(s) ==
    /\ s.nextInodeId <= MaxInodeId + 1
    /\ s.nextFd <= MaxFd + 1
    /\ Len(s.pending) <= MaxPending
    /\ \A i \in DOMAIN s.inodes : Len(FileBytes(s.inodes[i])) <= MaxFileLen

Apply(r) ==
    /\ WithinBounds(r.st)
    /\ inodes' = r.st.inodes
    /\ dirs' = r.st.dirs
    /\ nextInodeId' = r.st.nextInodeId
    /\ nextFd' = r.st.nextFd
    /\ handles' = r.st.handles
    /\ cwdId' = r.st.cwdId
    /\ dirtyInodes' = r.st.dirtyInodes
    /\ dirtyDirs' = r.st.dirtyDirs
    /\ driver' = r.st.driver
    /\ pending' = r.st.pending
    /\ UNCHANGED now

Fds == 3..(MaxFd + 1)
\* the buffers write is given and the sizes read is given
Bufs == {<<>>, <<1>>, <<2, 1>>}
ReadSizes == {0, 1, 3}

\* the calls, with the paths they are given
CallOpen(P) == \E p \in P, m \in Modes : Apply(open(S, p, m, now))
CallOpenFor(P, m) == \E p \in P : Apply(open(S, p, m, now))
CallRead == \E fd \in Fds, n \in ReadSizes : Apply(read(S, fd, n, now))
CallWrite == \E fd \in Fds, b \in Bufs : Apply(write(S, fd, b, now))
CallCleanPayload == \E fd \in Fds : Apply(cleanPayload(S, fd, now))
CallClose == \E fd \in Fds : Apply(close(S, fd))
CallMkdir(P) == \E p \in P : Apply(mkdir(S, p, now))
CallCd(P) == \E p \in P : Apply(cd(S, p, now))
CallResolve(P) == \E p \in P : Apply(resolveCall(S, p))
CallLs(P) == \E p \in P : Apply(ls(S, p))
CallTouch(P) == \E p \in P : Apply(touch(S, p, now))
CallCat(P) == \E p \in P : Apply(cat(S, p, now))
CallSync == Apply(sync(S))

\* the head of the queue runs; a waiting driver call ends in one of its outcomes
Settle ==
    /\ pending # <<>>
    /\ \E ok \in (IF Head(pending).kind = "flush" THEN Outcomes(S) ELSE {TRUE}) :
          Apply(Fail(SettleHead(S, ok), "OK"))

Tick ==
    /\ now < MaxTime
    /\ now' = now + 1
    /\ UNCHANGED <<inodes, dirs, nextInodeId, nextFd, handles, cwdId, dirtyInodes,
                   dirtyDirs, driver, pending>>

\* the namespace: directories and files are made, entered and opened
TreePaths ==
    {<<>>, <<"/">>, <<"/", "/">>, <<"a">>, <<"/", "a">>, <<"a", "/">>, <<"1">>,
     <<"a", "/", "1">>, <<"/", "a", "/", "1">>, <<"a", "/", "a">>, <<".">>, <<".", ".">>,
     <<"a", "/", ".", ".">>, <<"1", "/", "a">>, <<"a", "/", ".">>}

NextTree ==
    \/ CallMkdir(TreePaths)
    \/ CallTouch(TreePaths)
    \/ CallOpen(TreePaths)
    \/ CallCd(TreePaths)
    \/ CallClose
    \/ Settle

SpecTree == Init /\ [][NextTree]_vars

\* file contents: a host that awaits what it starts opens, writes, reads and closes
\* a file of the root; read and close may still fall between a write and its end
FilePaths == {<<"/", "a">>, <<"/">>}

Quiet == pending = <<>>

NextIO ==
    \/ (Quiet /\ CallOpen(FilePaths))
    \/ (Quiet /\ CallWrite)
    \/ CallRead
    \/ (Quiet /\ CallCleanPayload)
    \/ CallClose
    \/ Settle

SpecIO == Init /\ [][NextIO]_vars

\* a host on either backend that awaits each call: it builds directories and files,
\* writes, and syncs; on IndexedDB a transaction may fail
PersistPaths == {<<"/", "a">>, <<"/", "a", "/", "1">>}
InitPersist == \E kind \in DriverKinds : InitOn(kind)
NextPersist ==
    \/ (Quiet /\ CallMkdir(PersistPaths))
    \/ (Quiet /\ CallTouch(PersistPaths))
    \/ (Quiet /\ CallOpen(PersistPaths))
    \/ (Quiet /\ CallWrite)
    \/ (Quiet /\ CallClose)
    \/ (Quiet /\ CallSync)
    \/ Settle
SpecPersist == InitPersist /\ [][NextPersist]_vars

\* a host on either backend that does not wait for a call to end before it makes
\* the next one: flushes overlap, and on IndexedDB any of them may fail
AsyncPaths == {<<"/", "a">>, <<"/", "1">>}
NextAsync ==
    \/ CallOpenFor(AsyncPaths, <<"w">>)
    \/ CallMkdir(AsyncPaths)
    \/ CallTouch(AsyncPaths)
    \/ CallSync
    \/ Settle
SpecAsync == InitPersist /\ [][NextAsync]_vars

\* navigation: a host on MemoryDriver that awaits what it starts makes directories
\* and files, changes directory and lists
NavPaths == {<<"a">>, <<"1">>, <<"/", "1", "/", "a">>, <<".", ".">>, <<"/">>}
NextNav ==
    \/ (Quiet /\ CallMkdir(NavPaths))
    \/ (Quiet /\ CallTouch(NavPaths))
    \/ (Quiet /\ CallCd(NavPaths))
    \/ (Quiet /\ CallLs(NavPaths \cup {<<>>}))
    \/ CallResolve(NavPaths \cup {<<>>})
    \/ Settle
SpecNav == Init /\ [][NextNav]_vars

\* files and directories side by side: a host on MemoryDriver that awaits what it
\* starts makes both, writes the files and empties them
MixedPaths == {<<"/", "a">>, <<"/", "1">>}
NextMixed ==
    \/ (Quiet /\ CallMkdir(MixedPaths))
    \/ (Quiet /\ CallTouch(MixedPaths))
    \/ (Quiet /\ CallOpenFor({<<"/", "a">>}, <<"w">>))
    \/ (Quiet /\ CallWrite)
    \/ (Quiet /\ CallCleanPayload)
    \/ Settle
SpecMixed == Init /\ [][NextMixed]_vars

\* the current directory and the handles: a host on MemoryDriver that awaits what it
\* starts makes directories, enters them, opens files there, reads, writes and closes
CwdPaths == {<<"a">>, <<"/", "a">>, DOTDOT}
NextCwd ==
    \/ (Quiet /\ CallMkdir(CwdPaths))
    \/ (Quiet /\ CallCd(CwdPaths))
    \/ (Quiet /\ CallOpenFor(CwdPaths, <<"r", "w">>))
    \/ (Quiet /\ CallWrite)
    \/ (Quiet /\ CallRead)
    \/ (Quiet /\ CallClose)
    \/ Settle
SpecCwd == Init /\ [][NextCwd]_vars

(***************************************************************************)
(* What the claims quantify over: every fd, buffer, size and path of the   *)
(* model, whether or not an action of a specification issues it.           *)
(***************************************************************************)
AnyFd == 0..(MaxFd + 1)
AnyBuf == {<<>>} \cup {<<x>> : x \in 0..2} \cup {<<x, y>> : x \in 0..2, y \in 0..2}
AnySize == 0..(MaxFileLen + 2)

Max(a, b) == IF a > b THEN a ELSE b
Min(a, b) == IF a < b THEN a ELSE b

CanWrite(s, fd) == fd \in DOMAIN s.handles /\ Includes(s.handles[fd].mode, "w")
CanRead(s, fd) == fd \in DOMAIN s.handles /\ Includes(s.handles[fd].mode, "r")

\* the part of the state C3 names: tables, cwd and counters
Tables(s) ==
    [inodes |-> s.inodes, dirs |-> s.dirs, handles |-> s.handles, cwdId |-> s.cwdId,
     nextInodeId |-> s.nextInodeId, nextFd |-> s.nextFd]

(***************************************************************************)
(* C1.  Persistence round trip: after successful mkdir, touch, open, write *)
(* and close calls on an instance and an awaited successful sync(), an     *)
(* instance built with VFS.create on the same backend holds the same inode *)
(* ids with the same type, parent, name, size and file bytes, and an entry *)
(* map with the same name->id contents for every directory that has one.   *)
(* Stated as a step: from a settled state whose backend already round      *)
(* trips, one more successful call and a sync round trip as well.          *)
(***************************************************************************)
SameFS(a, b) ==
    /\ DOMAIN b.inodes = DOMAIN a.inodes
    /\ \A i \in DOMAIN a.inodes :
          /\ b.inodes[i].type = a.inodes[i].type
          /\ b.inodes[i].parent = a.inodes[i].parent
          /\ b.inodes[i].name = a.inodes[i].name
          /\ b.inodes[i].size = a.inodes[i].size
          /\ FileBytes(b.inodes[i]) = FileBytes(a.inodes[i])
    /\ DOMAIN b.dirs = DOMAIN a.dirs
    /\ \A d \in DOMAIN a.dirs : MapPairs(b.dirs[d]) = MapPairs(a.dirs[d])

RoundTripsAfter(r) ==
    r.err = "OK" =>
        LET s1 == Await(r.st, TRUE)
            s2 == Await(sync(s1).st, TRUE)
        IN SameFS(s2, create(s2, now))

C1_RoundTrip ==
    (Quiet /\ dirtyInodes = {} /\ dirtyDirs = {} /\ SameFS(S, create(S, now))) =>
        /\ \A p \in PersistPaths :
              /\ RoundTripsAfter(mkdir(S, p, now))
              /\ RoundTripsAfter(touch(S, p, now))
              /\ \A m \in Modes : RoundTripsAfter(open(S, p, m, now))
        /\ \A fd \in AnyFd :
              /\ \A b \in AnyBuf : RoundTripsAfter(write(S, fd, b, now))
              /\ RoundTripsAfter(close(S, fd))

\* the same round trip on the backend that keeps the full snapshot
C1_RoundTripMemory == driver.kind = "memory" => C1_RoundTrip

(***************************************************************************)
(* C2.  If mkdir(p) succeeds, an immediately following mkdir(p) fails with *)
(* EEXIST and creates nothing; likewise touch(p) after touch(p); for every *)
(* path p, those with missing intermediate components included.            *)
(***************************************************************************)
C2_MkdirTwice(p) ==
    LET m1 == mkdir(S, p, now) IN
    m1.err = "OK" =>
        LET s1 == Await(m1.st, TRUE)
            m2 == mkdir(s1, p, now)
        IN m2.err = "EEXIST" /\ Tables(m2.st) = Tables(s1)

C2_TouchTwice(p) ==
    LET t1 == touch(S, p, now) IN
    t1.err = "OK" =>
        LET s1 == Await(t1.st, TRUE)
            t2 == touch(s1, p, now)
        IN t2.err = "EEXIST" /\ Tables(t2.st) = Tables(s1)

C2_SecondCreateFails == \A p \in Paths : C2_MkdirTwice(p) /\ C2_TouchTwice(p)

(***************************************************************************)
(* C3.  Whenever open, read, write, close, mkdir, cd, ls, touch or cat     *)
(* reports a failure, a rejection of the flush it awaits included, the     *)
(* inode table, the entry maps, the handle table, cwdId, nextInodeId and   *)
(* nextFd are what they were before the call.                              *)
(***************************************************************************)
\* a call that throws
ThrowKeeps(r) == r.err # "OK" => Tables(r.st) = Tables(S)

\* a call whose promise rejects: it threw, or the flush it awaits ended in failure
RejectKeeps(r, ok) ==
    (r.err # "OK" \/ (r.st.pending # <<>> /\ ~ok)) => Tables(Await(r.st, ok)) = Tables(S)

C3_FailureKeepsState ==
    Quiet =>
        /\ \A p \in Paths :
              /\ \A m \in Modes : ThrowKeeps(open(S, p, m, now))
              /\ ThrowKeeps(cd(S, p, now))
              /\ ThrowKeeps(ls(S, p))
              /\ \A ok \in Outcomes(S) :
                    /\ RejectKeeps(mkdir(S, p, now), ok)
                    /\ RejectKeeps(touch(S, p, now), ok)
                    /\ RejectKeeps(cat(S, p, now), ok)
        /\ \A fd \in AnyFd :
              /\ \A n \in AnySize : ThrowKeeps(read(S, fd, n, now))
              /\ ThrowKeeps(close(S, fd))
              /\ \A b \in AnyBuf, ok \in Outcomes(S) : RejectKeeps(write(S, fd, b, now), ok)

(***************************************************************************)
(* C4.  An awaited write(fd, buf) at offset o over a file of length L      *)
(* leaves a payload of length max(L, o + len(buf)) that holds buf at       *)
(* [o, o + len(buf)), the old bytes at every other position below L and 0  *)
(* at every position of [L, o); size is the new length and the handle's    *)
(* offset is o + len(buf).                                                 *)
(***************************************************************************)
C4_WriteLayoutAt(fd, buf) ==
    LET h == handles[fd]
        o == h.offset
        old == FileBytes(inodes[h.inodeId])
        L == Len(old)
        w == write(S, fd, buf, now)
        s2 == Await(w.st, TRUE)
        new == FileBytes(s2.inodes[h.inodeId])
    IN /\ w.err = "OK"
       /\ Len(new) = Max(L, o + Len(buf))
       /\ \A i \in 1..Len(new) :
            /\ (i > o /\ i <= o + Len(buf)) => new[i] = buf[i - o]
            /\ (i <= L /\ ~(i > o /\ i <= o + Len(buf))) => new[i] = old[i]
            /\ (i > L /\ i <= o) => new[i] = 0
       /\ s2.inodes[h.inodeId].size = Len(new)
       /\ s2.handles[fd].offset = o + Len(buf)

C4_WriteLayout ==
    Quiet => \A fd \in AnyFd, buf \in AnyBuf : CanWrite(S, fd) => C4_WriteLayoutAt(fd, buf)

\* a write past the end of the data has ended: a zero, then the bytes written
C4_Witness ==
    /\ Quiet
    /\ \E fd \in DOMAIN handles :
          LET d == FileBytes(inodes[handles[fd].inodeId])
          IN /\ CanWrite(S, fd)
             /\ Len(d) = 2 /\ d[1] = 0 /\ d[2] = 1
             /\ handles[fd].offset = 2

(***************************************************************************)
(* C5.  Once write(fd, b) has put b at offset o of a file, a read of       *)
(* len(b) bytes through a reading handle of that file whose offset is o    *)
(* returns b: right after the call (the writing handle itself, still at    *)
(* o), after the write has ended, and through a handle opened afterwards   *)
(* (when o = 0).                                                           *)
(***************************************************************************)
ReadsBack(s, inodeId, o, b) ==
    \A h \in DOMAIN s.handles :
        (CanRead(s, h) /\ s.handles[h].inodeId = inodeId /\ s.handles[h].offset = o)
            => LET r == read(s, h, Len(b), now) IN r.err = "OK" /\ r.ret = b

C5_RoundTripAt(fd, buf) ==
    LET h == handles[fd]
        w == write(S, fd, buf, now)
        s2 == Await(w.st, TRUE)
    IN /\ ReadsBack(w.st, h.inodeId, h.offset, buf)
       /\ ReadsBack(s2, h.inodeId, h.offset, buf)
       /\ h.offset = 0 =>
            \A p \in Paths, m \in Modes :
                LET op == open(s2, p, m, now)
                IN (op.err = "OK" /\ op.st.handles[op.ret].inodeId = h.inodeId)
                      => /\ op.st.handles[op.ret].offset = 0
                         /\ ReadsBack(op.st, h.inodeId, 0, buf)

C5_RoundTrip ==
    Quiet => \A fd \in AnyFd, buf \in AnyBuf : CanWrite(S, fd) => C5_RoundTripAt(fd, buf)

\* bytes were written through a read-write handle, and a reading handle of the same
\* file stands where they start
C5_Witness ==
    \E fd \in DOMAIN handles, h \in DOMAIN handles :
        /\ fd # h
        /\ handles[fd].mode = <<"r", "w">> /\ handles[h].mode = <<"r">>
        /\ handles[fd].inodeId = handles[h].inodeId
        /\ handles[fd].offset = 2 /\ handles[h].offset = 0
        /\ FileBytes(inodes[handles[fd].inodeId]) = <<2, 1>>

(***************************************************************************)
(* C6.  read(fd, n), n >= 0, at offset o over a file of length L returns   *)
(* the min(n, max(L - o, 0)) bytes from o on, advances the offset by as    *)
(* many, never fails at the end of the data, and leaves every payload,     *)
(* every size and every other handle as they were.                         *)
(***************************************************************************)
C6_ReadAt(fd, n) ==
    LET h == handles[fd]
        o == h.offset
        data == FileBytes(inodes[h.inodeId])
        k == Min(n, Max(Len(data) - o, 0))
        r == read(S, fd, n, now)
    IN /\ r.err = "OK"
       /\ Len(r.ret) = k
       /\ \A i \in 1..k : r.ret[i] = data[o + i]
       /\ r.st.handles[fd].offset = o + k
       /\ DOMAIN r.st.handles = DOMAIN handles
       /\ \A f \in DOMAIN handles \ {fd} : r.st.handles[f] = handles[f]
       /\ DOMAIN r.st.inodes = DOMAIN inodes
       /\ \A i \in DOMAIN inodes :
            /\ r.st.inodes[i].payload = inodes[i].payload
            /\ r.st.inodes[i].size = inodes[i].size

C6_Read == \A fd \in AnyFd, n \in AnySize : CanRead(S, fd) => C6_ReadAt(fd, n)

\* a handle that can only read has read to the end of a file of two bytes, beside
\* another handle of that file
C6_Witness ==
    \E fd \in DOMAIN handles, h \in DOMAIN handles :
        /\ fd # h
        /\ handles[fd].mode = <<"r">>
        /\ handles[fd].inodeId = handles[h].inodeId
        /\ handles[fd].offset = 2
        /\ Len(FileBytes(inodes[handles[fd].inodeId])) = 2

(***************************************************************************)
(* C7.  open(path, mode) fails with ENOENT when path resolves to no target *)
(* and mode has no "w", and with EISDIR when the target is not a file (as  *)
(* open("/", "r")); either way nothing changes: no handle, no inode.       *)
(***************************************************************************)
C7_OpenAt(p, m) ==
    LET r == resolve(S, p)
        o == open(S, p, m, now)
    IN /\ (r.err = "OK" /\ r.target = UNDEF /\ \A i \in 1..Len(m) : m[i] # "w")
            => (o.err = "ENOENT" /\ o.st = S)
       /\ (r.err = "OK" /\ r.target # UNDEF /\ inodes[r.target].type # "file")
            => (o.err = "EISDIR" /\ o.st = S)

C7_OpenErrors ==
    /\ \A p \in Paths, m \in Modes : C7_OpenAt(p, m)
    /\ open(S, <<"/">>, <<"r">>, now).err = "EISDIR"
    /\ ~MapHas(dirs[1], <<"1">>) => open(S, <<"/", "1">>, <<"r">>, now).err = "ENOENT"

\* with a file open, both failures are there to happen: a missing name, a directory
C7_Witness ==
    /\ handles # EmptyFn
    /\ open(S, <<"/", "1">>, <<"r">>, now).err = "ENOENT"
    /\ open(S, <<"/">>, <<"r", "w">>, now).err = "EISDIR"
    /\ open(S, <<"/", "a">>, <<"r">>, now).err = "OK"

(***************************************************************************)
(* C8.  read, write and close fail with EBADF on every fd that is not in   *)
(* the handle table; read also on a handle opened "w", write on a handle   *)
(* opened "r".  A failed call changes nothing.  An fd that open has given  *)
(* out and close has released never comes back into the table.             *)
(***************************************************************************)
Rejected(r) == r.err = "EBADF" /\ r.st = S

C8_BadFdNow ==
    /\ DOMAIN handles \subseteq 3..(nextFd - 1)
    /\ \A fd \in AnyFd \ DOMAIN handles :
          /\ \A n \in AnySize : Rejected(read(S, fd, n, now))
          /\ \A b \in AnyBuf : Rejected(write(S, fd, b, now))
          /\ Rejected(close(S, fd))
    /\ \A fd \in DOMAIN handles :
          /\ handles[fd].mode = <<"w">> => \A n \in AnySize : Rejected(read(S, fd, n, now))
          /\ handles[fd].mode = <<"r">> => \A b \in AnyBuf : Rejected(write(S, fd, b, now))

C8_ClosedStaysClosed ==
    \A fd \in AnyFd : (fd < nextFd /\ fd \notin DOMAIN handles) => fd \notin DOMAIN handles'

C8_BadDescriptor == []C8_BadFdNow /\ [][C8_ClosedStaysClosed]_vars

\* fd 3 was closed and another file was opened after it
C8_Witness == 3 \notin DOMAIN handles /\ 4 \in DOMAIN handles

(***************************************************************************)
(* C9.  open(path, mode) with a missing target and a mode that includes    *)
(* "w" creates exactly one file inode (size 0, empty payload, links 1,     *)
(* parent = the resolved parent) and exactly one new entry in the parent's *)
(* map; open on an existing file creates no inode, leaves its payload and  *)
(* size alone and returns a new handle with offset 0 on that inode.        *)
(***************************************************************************)
C9_Creates(p, m) ==
    LET r == resolve(S, p)
        o == open(S, p, m, now)
        id == nextInodeId
    IN /\ o.err = "OK"
       /\ DOMAIN o.st.inodes = DOMAIN inodes \cup {id}
       /\ id \notin DOMAIN inodes
       /\ \A i \in DOMAIN inodes :
             o.st.inodes[i].payload = inodes[i].payload /\ o.st.inodes[i].size = inodes[i].size
       /\ o.st.inodes[id].type = "file"
       /\ o.st.inodes[id].size = 0
       /\ o.st.inodes[id].payload = FilePayload(<<>>)
       /\ o.st.inodes[id].links = 1
       /\ o.st.inodes[id].parent = r.parent
       /\ DOMAIN o.st.dirs = DOMAIN dirs
       /\ \A d \in DOMAIN dirs \ {r.parent} : o.st.dirs[d] = dirs[d]
       /\ Len(o.st.dirs[r.parent]) = Len(dirs[r.parent]) + 1
       /\ MapPairs(dirs[r.parent]) \subseteq MapPairs(o.st.dirs[r.parent])
       /\ \E e \in MapPairs(o.st.dirs[r.parent]) \ MapPairs(dirs[r.parent]) : e[2] = id

C9_Reopens(p, m) ==
    LET r == resolve(S, p)
        o == open(S, p, m, now)
    IN /\ o.err = "OK"
       /\ DOMAIN o.st.inodes = DOMAIN inodes
       /\ \A i \in DOMAIN inodes :
             o.st.inodes[i].payload = inodes[i].payload /\ o.st.inodes[i].size = inodes[i].size
       /\ o.st.dirs = dirs
       /\ o.ret \notin DOMAIN handles
       /\ DOMAIN o.st.handles = DOMAIN handles \cup {o.ret}
       /\ o.st.handles[o.ret].offset = 0
       /\ o.st.handles[o.ret].inodeId = r.target

C9_OpenCreatesOnce ==
    \A p \in Paths, m \in Modes :
        LET r == resolve(S, p) IN
        (r.err = "OK" /\ r.parent # UNDEF /\ inodes[r.parent].type = "dir") =>
            /\ (r.target = UNDEF /\ (\E i \in 1..Len(m) : m[i] = "w")) => C9_Creates(p, m)
            /\ (r.target # UNDEF /\ inodes[r.target].type = "file") => C9_Reopens(p, m)

(***************************************************************************)
(* C10.  Every directory inode other than the root appears as exactly one  *)
(* entry of exactly one entry map: the map of the directory its parent     *)
(* field names, under a key equal to its name, with its own id as value.   *)
(***************************************************************************)
EntriesOf(id) ==
    {<<d, k>> \in UNION {{d} \X (1..Len(dirs[d])) : d \in DOMAIN dirs} : dirs[d][k].id = id}

C10_OneEntryPerDirectory ==
    \A i \in DOMAIN inodes :
        (i # 1 /\ inodes[i].type = "dir") =>
            /\ Cardinality(EntriesOf(i)) = 1
            /\ \A e \in EntriesOf(i) :
                  /\ e[1] = inodes[i].parent
                  /\ dirs[e[1]][e[2]].name = inodes[i].name

(***************************************************************************)
(* C11.  Every id stored as a value in a directory entry map is the id of  *)
(* an inode of the inode table: in every state of the instance, and in the *)
(* instance that bootstrap builds from what the backend holds then.        *)
(***************************************************************************)
EntriesKnown(s) ==
    \A d \in DOMAIN s.dirs : \A i \in 1..Len(s.dirs[d]) : s.dirs[d][i].id \in DOMAIN s.inodes

C11_EntriesKnown == EntriesKnown(S) /\ EntriesKnown(create(S, now))

(***************************************************************************)
(* C12.  nextInodeId is greater than every id of the inode table, in the   *)
(* instance and in the instance bootstrap restores from the backend; so a  *)
(* creation by open, mkdir or touch takes an id that no inode has and      *)
(* leaves every inode that exists what it was.                             *)
(***************************************************************************)
CounterAbove(s) == \A i \in DOMAIN s.inodes : i < s.nextInodeId

\* r, the outcome of a call made in state s, overwrote no inode of s
KeepsInodes(s, r) ==
    /\ DOMAIN s.inodes \subseteq DOMAIN r.st.inodes
    /\ \A i \in DOMAIN s.inodes :
          /\ r.st.inodes[i].id = i
          /\ r.st.inodes[i].type = s.inodes[i].type
          /\ r.st.inodes[i].name = s.inodes[i].name
          /\ r.st.inodes[i].parent = s.inodes[i].parent
          /\ r.st.inodes[i].payload = s.inodes[i].payload
    /\ \A i \in DOMAIN r.st.inodes \ DOMAIN s.inodes : i >= s.nextInodeId /\ r.st.inodes[i].id = i

CreatesFresh(s) ==
    \A p \in AsyncPaths :
        /\ \A r \in {mkdir(s, p, now), touch(s, p, now)} : KeepsInodes(s, r)
        /\ \A m \in Modes : \A r \in {open(s, p, m, now)} : KeepsInodes(s, r)

C12_CounterAboveIds ==
    \A B \in {create(S, now)} :
        /\ CounterAbove(S) /\ CreatesFresh(S)
        /\ CounterAbove(B) /\ CreatesFresh(B)

\* inodes were created, persisted, and the instance restored from them counts on
C12_Witness ==
    LET B == create(S, now) IN
    /\ nextInodeId = 4
    /\ DOMAIN B.inodes = {1, 2, 3}
    /\ B.nextInodeId = 4
    /\ mkdir(B, <<"/", "a", "/", "a">>, now).st.nextInodeId = 5

(***************************************************************************)
(* C13.  Inode 1 exists, is a directory and has parent 0, and no other     *)
(* inode has parent 0: in every state of the instance and in the instance  *)
(* VFS.create builds from what the backend holds then.                     *)
(***************************************************************************)
RootStands(s) ==
    /\ 1 \in DOMAIN s.inodes
    /\ s.inodes[1].type = "dir"
    /\ s.inodes[1].parent = 0
    /\ \A i \in DOMAIN s.inodes \ {1} : s.inodes[i].parent # 0

C13_RootStands == RootStands(S) /\ RootStands(create(S, now))

\* a directory made under the root has reached the backend
C13_Witness ==
    \E i \in DOMAIN inodes \ {1} :
        /\ inodes[i].type = "dir" /\ inodes[i].parent = 1
        /\ i \in DOMAIN create(S, now).inodes

(***************************************************************************)
(* C14.  The fds that successive successful opens return are strictly      *)
(* increasing and all >= 3: open returns nextFd, which is above every fd   *)
(* given out so far and never goes down; so no two live handles share an   *)
(* fd, each handle's fd field is its key in the handle table, and an fd    *)
(* that close released is never returned again.                            *)
(***************************************************************************)
C14_OpenTakesNextFd(p, m) ==
    LET o == open(S, p, m, now) IN
    o.err = "OK" =>
        /\ o.ret = nextFd
        /\ o.ret \notin DOMAIN handles
        /\ o.st.nextFd = nextFd + 1
        /\ DOMAIN o.st.handles = DOMAIN handles \cup {o.ret}
        /\ o.st.handles[o.ret].fd = o.ret
        /\ \A f \in DOMAIN handles : o.st.handles[f] = handles[f]

C14_FdsNow ==
    /\ nextFd >= 3
    /\ \A fd \in DOMAIN handles : handles[fd].fd = fd /\ fd >= 3 /\ fd < nextFd
    /\ \A p \in FilePaths, m \in Modes : C14_OpenTakesNextFd(p, m)

C14_NextFdGrows == nextFd' >= nextFd

C14_FdsIncrease == []C14_FdsNow /\ [][C14_NextFdGrows]_vars

\* two handles of one file are live, under different fds
C14_Witness ==
    /\ DOMAIN handles = {3, 4}
    /\ handles[3].inodeId = handles[4].inodeId
    /\ nextFd = 5

(***************************************************************************)
(* C15.  A flush whose backend call fails leaves the dirty sets as they    *)
(* were before it, so that a retry resends its delta: every id it carried  *)
(* whose carried state the backend does not hold is still dirty when the   *)
(* failure reaches the caller.  A flush whose backend call succeeds leaves *)
(* both dirty sets empty.                                                  *)
(***************************************************************************)
\* the ids a flush carried whose carried state is not in the store
UnsavedInodes(e) ==
    {i \in DOMAIN e.tx.inodes : i \notin DOMAIN driver.inodes \/ driver.inodes[i] # e.tx.inodes[i]}
UnsavedDirs(e) ==
    {d \in DOMAIN e.tx.dirs : d \notin DOMAIN driver.dirs \/ driver.dirs[d] # e.tx.dirs[d]}

C15_FlushAndDirtySets ==
    (pending # <<>> /\ Head(pending).kind = "flush") =>
        \A ok \in Outcomes(S) :
            LET e == Head(pending)
                after == SettleHead(S, ok)
            IN IF ok
               THEN after.dirtyInodes = {} /\ after.dirtyDirs = {}
               ELSE /\ UnsavedInodes(e) \subseteq after.dirtyInodes
                    /\ UnsavedDirs(e) \subseteq after.dirtyDirs

(***************************************************************************)
(* C16.  The two backend strategies are equivalent: after operations that  *)
(* end in a successful awaited sync(), the backend that applies only       *)
(* delta.changes holds the inode table, timestamps included, and the entry *)
(* maps, for the same directory ids, that the backend keeping              *)
(* delta.fullSnapshot holds.  Stated as a step: from a settled state in    *)
(* which the two agree, one more successful call and a sync leave them in  *)
(* agreement.                                                              *)
(***************************************************************************)
\* what IndexedDB holds is what delta.fullSnapshot of the instance is
BackendsAgree(s) ==
    /\ s.driver.inodes = s.inodes
    /\ s.driver.dirs = Delta(s).fullSnapshot.dirs

AgreeAfter(r) ==
    r.err = "OK" =>
        LET s1 == Await(r.st, TRUE)
            s2 == Await(sync(s1).st, TRUE)
        IN BackendsAgree(s2)

C16_BackendsEquivalent ==
    (driver.kind = "idb" /\ Quiet /\ dirtyInodes = {} /\ dirtyDirs = {} /\ BackendsAgree(S)) =>
        /\ \A p \in PersistPaths :
              /\ AgreeAfter(mkdir(S, p, now))
              /\ AgreeAfter(touch(S, p, now))
              /\ AgreeAfter(cd(S, p, now))
              /\ \A m \in Modes : AgreeAfter(open(S, p, m, now))
        /\ \A fd \in AnyFd :
              /\ \A b \in AnyBuf : AgreeAfter(write(S, fd, b, now))
              /\ \A n \in AnySize : AgreeAfter(read(S, fd, n, now))
              /\ AgreeAfter(close(S, fd))

(***************************************************************************)
(* C17.  VFS.create on a backend that was never written gives an instance  *)
(* whose inode table holds the root alone (id 1, dir, parent 0, links 2),  *)
(* with an empty entry map, empty dirty sets, nextInodeId 2 and cwdId 1,   *)
(* and the backend holds that baseline already; nothing another instance   *)
(* persisted into its own backend is visible: a path that resolves to an   *)
(* inode made there resolves to no target here.                            *)
(***************************************************************************)
C17_FreshOn(kind) ==
    \A v \in {createFresh(kind, now)} :
    LET held == LoadFS(v)
    IN /\ DOMAIN v.inodes = {1}
       /\ v.inodes[1].id = 1 /\ v.inodes[1].type = "dir"
       /\ v.inodes[1].parent = 0 /\ v.inodes[1].links = 2
       /\ DOMAIN v.dirs = {1} /\ v.dirs[1] = <<>>
       /\ v.dirtyInodes = {} /\ v.dirtyDirs = {}
       /\ v.nextInodeId = 2 /\ v.cwdId = 1
       /\ v.handles = EmptyFn /\ v.pending = <<>>
       /\ DOMAIN held.inodes = {1} /\ held.inodes[1] = v.inodes[1]
       /\ DOMAIN held.dirs = {1} /\ MapFromObj(held.dirs[1]) = <<>>
       /\ \A p \in TreePaths :
             LET r == resolve(S, p) IN
             (r.err = "OK" /\ r.target # UNDEF /\ r.target # 1) => resolve(v, p).target = UNDEF

C17_FreshCreate == \A kind \in DriverKinds : C17_FreshOn(kind)

\* this instance has persisted a directory and a file; a fresh one sees neither
C17_Witness ==
    /\ Quiet /\ dirtyInodes = {}
    /\ resolve(S, <<"/", "a">>).target # UNDEF
    /\ resolve(S, <<"/", "1">>).target # UNDEF
    /\ DOMAIN LoadFS(S).inodes = {1, 2, 3}
    /\ resolve(createFresh(driver.kind, now), <<"/", "a">>).target = UNDEF


(***************************************************************************)
(* C18.  ls(path) on a directory gives one {name, type, id} record per     *)
(* entry of the directory's map, in the order in which the children were   *)
(* created in it (ids are handed out in creation order, so: by ascending   *)
(* id), type and id being those of the child's inode, and no record is     *)
(* named "." or ".."; when the path resolves to no target, or to one that  *)
(* is not a directory, ls fails with ENOENT.  The same holds in an         *)
(* instance created afterwards on the same backend.                        *)
(***************************************************************************)
InCreationOrder(recs) == \A i, j \in 1..Len(recs) : i < j => recs[i].id < recs[j].id

ListsAt(s, p) ==
    \A r \in {resolve(s, p)} : \A l \in {ls(s, p)} :
        r.err = "OK" =>
            IF r.target = UNDEF \/ s.inodes[r.target].type # "dir"
            THEN l.err = "ENOENT"
            ELSE /\ l.err = "OK"
                 /\ r.target \in DOMAIN s.dirs
                 /\ Len(l.ret) = Len(s.dirs[r.target])
                 /\ \A i \in 1..Len(l.ret) :
                       /\ l.ret[i].name \notin {DOT, DOTDOT}
                       /\ \E k \in 1..Len(s.dirs[r.target]) :
                             /\ s.dirs[r.target][k].name = l.ret[i].name
                             /\ s.dirs[r.target][k].id = l.ret[i].id
                       /\ l.ret[i].id \in DOMAIN s.inodes
                       /\ l.ret[i].type = s.inodes[l.ret[i].id].type
                 /\ InCreationOrder(l.ret)

Lists(s) == \A p \in NavPaths : ListsAt(s, p)

C18_Ls == Lists(S) /\ Lists(create(S, now))

(***************************************************************************)
(* C19.  In every reachable state ls() without a path gives the entries of *)
(* the directory whose id is cwdId: the result of reading the entry map of *)
(* inode cwdId directly.                                                   *)
(***************************************************************************)
\* the entry map of directory `id` read directly, as records
ListOf(s, id) ==
    LET shown == SelectSeq(s.dirs[id], LAMBDA e : e.name # DOT /\ e.name # DOTDOT)
    IN [i \in 1..Len(shown) |-> LsRecord(s, shown[i])]

C19_LsOfCwd ==
    \A l \in {ls(S, <<>>)} :
        /\ l.err = "OK"
        /\ l.ret = ListOf(S, cwdId)

(***************************************************************************)
(* C20.  cd("..") never fails: from a directory that is not the root it    *)
(* sets cwdId to the parent id of that directory, from the root it leaves  *)
(* cwdId at 1, and doing it again from there behaves the same; the current *)
(* directory is always an inode of the table, never id 0.                  *)
(***************************************************************************)
UpFrom(s) == IF s.inodes[s.cwdId].parent = 0 THEN s.cwdId ELSE s.inodes[s.cwdId].parent

CdUp(s) ==
    \A r \in {cd(s, DOTDOT, now)} :
        /\ r.err = "OK"
        /\ r.st.cwdId = UpFrom(s)
        /\ r.st.cwdId \in DOMAIN s.inodes
        /\ (s.cwdId = 1 => r.st.cwdId = 1)

C20_CdUp ==
    /\ cwdId \in DOMAIN inodes
    /\ CdUp(S)
    /\ \A r \in {cd(S, DOTDOT, now)} : CdUp(Await(r.st, TRUE))

\* the current directory is two levels below the root
C20_Witness ==
    /\ cwdId # 1
    /\ inodes[cwdId].parent # 1
    /\ cd(cd(cd(S, DOTDOT, now).st, DOTDOT, now).st, DOTDOT, now).st.cwdId = 1


(***************************************************************************)
(* C21.  In every reachable state, whatever the current working directory, *)
(* resolve("/") returns target = parent = the root inode, which has id 1   *)
(* and type dir.                                                           *)
(***************************************************************************)
C21_ResolveRoot ==
    /\ resolve(S, <<"/">>) = Resolved(1, 1)
    /\ inodes[1].id = 1
    /\ inodes[1].type = "dir"

\* the current directory is not the root, and "/" still resolves to the root
C21_Witness ==
    /\ cwdId # 1
    /\ resolve(S, <<"/">>).target = 1


(***************************************************************************)
(* C22.  For every existing directory d and every name n that is not a key *)
(* of d's entry map (n other than "." and ".."), a path that reaches d and *)
(* then names n resolves to an undefined target with parent = d, and a     *)
(* following mkdir, touch or open for writing on that path creates the new *)
(* entry in d.  The same holds in an instance created afterwards on the    *)
(* same backend.                                                           *)
(***************************************************************************)
\* paths that reach a directory, and the names added to them
ReachPaths == {<<"/">>, <<"/", "a">>, <<".">>, <<"a">>}
NewNames == {<<"a">>, <<"1">>}

\* the call made the entry n -> the fresh id in directory d, and no other entry
CreatedIn(s, c, d, n) ==
    /\ c.err = "OK"
    /\ d \in DOMAIN c.st.dirs
    /\ MapHas(c.st.dirs[d], n)
    /\ MapGet(c.st.dirs[d], n) = s.nextInodeId
    /\ s.nextInodeId \in DOMAIN c.st.inodes
    /\ c.st.inodes[s.nextInodeId].parent = d
    /\ c.st.inodes[s.nextInodeId].name = n
    /\ \A e \in DOMAIN s.dirs : e # d => c.st.dirs[e] = s.dirs[e]

MissingNameAt(s, p, n) ==
    \A r \in {resolve(s, p)} :
        (/\ r.err = "OK"
         /\ r.target # UNDEF
         /\ s.inodes[r.target].type = "dir"
         /\ (HasMap(s, r.target) => ~MapHas(s.dirs[r.target], n))) =>
            \A q \in {p \o <<"/">> \o n} :
                /\ resolve(s, q) = Resolved(UNDEF, r.target)
                /\ CreatedIn(s, mkdir(s, q, now), r.target, n)
                /\ CreatedIn(s, touch(s, q, now), r.target, n)
                /\ CreatedIn(s, open(s, q, <<"w">>, now), r.target, n)

MissingName(s) == \A p \in ReachPaths : \A n \in NewNames : MissingNameAt(s, p, n)

C22_MissingName == MissingName(S) /\ MissingName(create(S, now))


(***************************************************************************)
(* C23.  cat(path) returns the full payload of an existing file whose      *)
(* payload is not empty; it fails with ENOENT when the target is missing   *)
(* or is not a file; and it signals an error when the payload of the file  *)
(* is empty, as it is for a file just made by touch or by open for writing *)
(* and never written.                                                      *)
(***************************************************************************)
C23_CatAt(s, p) ==
    \A r \in {resolve(s, p)} : \A c \in {cat(s, p, now)} :
        r.err = "OK" =>
            IF r.target = UNDEF \/ s.inodes[r.target].type # "file"
            THEN c.err = "ENOENT"
            ELSE IF FileBytes(s.inodes[r.target]) = <<>>
            THEN c.err # "OK"
            ELSE /\ c.err = "OK"
                 /\ c.ret = FileBytes(s.inodes[r.target])

C23_Cat == \A p \in FilePaths : C23_CatAt(S, p)


(***************************************************************************)
(* C24.  Relative paths resolve from the current working directory: in     *)
(* every reachable state and for every relative path r, resolve(r) gives   *)
(* the target and parent that resolving getCurrentPath(), "/" and r as one *)
(* absolute path gives; an absolute path resolves the same whatever cwdId  *)
(* is.                                                                     *)
(***************************************************************************)
RelPaths ==
    {<<"a">>, <<"1">>, DOT, DOTDOT, <<"a", "/", "1">>, <<".", "/", "a">>,
     <<".", ".", "/", "a">>, <<"a", "/", ".", ".">>}
AbsPaths == {<<"/">> \o r : r \in RelPaths} \cup {<<"/">>}

RelativeFromCwd(s) ==
    \A r \in RelPaths : resolve(s, r) = resolve(s, getCurrentPath(s) \o <<"/">> \o r)

AbsoluteWhateverCwd(s) ==
    \A p \in AbsPaths : \A c \in DOMAIN s.inodes :
        resolve([s EXCEPT !.cwdId = c], p) = resolve(s, p)

C24_RelativePaths == RelativeFromCwd(S) /\ AbsoluteWhateverCwd(S)


(***************************************************************************)
(* C25.  Flushes of one VFS instance are serialized: at no time are two    *)
(* flushDelta calls of the instance in flight together at the backend.     *)
(* (The queue of the model runs in the order of the calls, so the order in *)
(* which deltas reach the backend is the order of issue by construction.)  *)
(***************************************************************************)
\* the flushDelta calls the backend has not finished: MemoryDriver.flushDelta stores
\* the snapshot within the call, an IndexedDB transaction ends later
InFlight(s) ==
    IF s.driver.kind = "memory" THEN {}
    ELSE {i \in 1..Len(s.pending) : s.pending[i].kind = "flush"}

C25_FlushesSerialized == Cardinality(InFlight(S)) <= 1


(***************************************************************************)
(* C26.  At-least-once persistence under interleaving: an inode id or a    *)
(* directory id that was added to a dirty set stays there until a backend  *)
(* apply that carried its latest state has succeeded, also when flushes    *)
(* overlap and backend calls fail.  As a state invariant on IndexedDB:     *)
(* every inode, and every entry map that was ever marked (the root's, and  *)
(* every map that has an entry), whose latest state the backend does not   *)
(* hold is in its dirty set.                                               *)
(***************************************************************************)
StoredInode(s, i) == i \in DOMAIN s.driver.inodes /\ s.driver.inodes[i] = s.inodes[i]
StoredDir(s, d) == d \in DOMAIN s.driver.dirs /\ s.driver.dirs[d] = ObjFromEntries(s.dirs[d])

C26_DirtyUntilStored ==
    driver.kind = "idb" =>
        /\ \A i \in DOMAIN inodes : StoredInode(S, i) \/ i \in dirtyInodes
        /\ \A d \in DOMAIN dirs :
              (d = 1 \/ dirs[d] # <<>>) => (StoredDir(S, d) \/ d \in dirtyDirs)


(***************************************************************************)
(* C27.  When two writes b1 and then b2 are issued on one handle, the      *)
(* second before the promise of the first has settled, the bytes of b2 are *)
(* placed right after the bytes of b1: once both have ended the file holds *)
(* b1 followed by b2 from the offset the handle had before the first.      *)
(***************************************************************************)
C27_WritesAt(s, fd, b1, b2) ==
    \A r1 \in {write(s, fd, b1, now)} : \A r2 \in {write(r1.st, fd, b2, now)} :
        (r1.err = "OK" /\ r2.err = "OK") =>
            LET off == s.handles[fd].offset
                end == Await(r2.st, TRUE)
                data == FileBytes(end.inodes[s.handles[fd].inodeId])
            IN /\ Len(data) >= off + Len(b1) + Len(b2)
               /\ SubSeq(data, off + 1, off + Len(b1) + Len(b2)) = b1 \o b2

C27_BackToBackWrites ==
    Quiet => \A fd \in DOMAIN handles : \A b1, b2 \in Bufs \ {<<>>} :
                 C27_WritesAt(S, fd, b1, b2)


(***************************************************************************)
(* C28.  resolve(path) is a pure query: for every path and in every        *)
(* reachable state, whether it returns or throws, it leaves the inode      *)
(* table with all timestamps, the entry maps, the handle table, cwdId,     *)
(* both counters and both dirty sets as they were, and it does not call    *)
(* the backend.                                                            *)
(***************************************************************************)
C28_ResolvePure ==
    \A p \in Paths : \A r \in {resolveCall(S, p)} :
        /\ r.st.inodes = inodes
        /\ r.st.dirs = dirs
        /\ r.st.handles = handles
        /\ r.st.cwdId = cwdId
        /\ r.st.nextInodeId = nextInodeId
        /\ r.st.nextFd = nextFd
        /\ r.st.dirtyInodes = dirtyInodes
        /\ r.st.dirtyDirs = dirtyDirs
        /\ r.st.driver = driver
        /\ r.st.pending = pending

\* with nothing dirty, one path resolves to an inode below the root and another
\* throws on a file used as a directory
C28_Witness ==
    /\ dirtyInodes = {}
    /\ \E p \in Paths : LET r == resolveCall(S, p) IN r.err = "OK" /\ r.ret.target \notin {UNDEF, 1}
    /\ \E p \in Paths : resolveCall(S, p).err = "ENOTDIR"


(***************************************************************************)
(* C29.  Whenever resolve(path) returns a defined target, the parent it    *)
(* returns is the directory that contains the target: parent.id is         *)
(* target.parent when the target is not the root, and the parent is the    *)
(* root when the target is the root; for every mix of names, "." and ".."  *)
(* segments, absolute and relative.                                        *)
(***************************************************************************)
ParentContains(s, p) ==
    \A r \in {resolve(s, p)} :
        (r.err = "OK" /\ r.target # UNDEF) =>
            r.parent = (IF r.target = 1 THEN 1 ELSE s.inodes[r.target].parent)

C29_ParentOfTarget == \A p \in Paths : ParentContains(S, p)


(***************************************************************************)
(* C30.  resolve fails with ENOTDIR exactly when a segment other than "."  *)
(* and ".." is processed while the cursor is an inode that is not a        *)
(* directory: when some proper prefix of the segments resolves to a        *)
(* non-directory and the next segment is a name.  So the parent of every   *)
(* successful resolve is of type dir, and mkdir, touch and open make no    *)
(* entry under a file: every inode's parent is a directory and only        *)
(* directories have entry maps.                                            *)
(***************************************************************************)
\* a name segment follows a prefix of the path that leads to a non-directory
NameUnderNonDir(s, p) ==
    LET norm == IF p = <<"/">> THEN p ELSE StripTrailingSlashes(p)
        parts == SplitPath(norm)
        start == IF StartsWithSlash(norm) THEN 1 ELSE s.cwdId
    IN \E k \in 0..(Len(parts) - 1) :
          /\ parts[k + 1] \notin {DOT, DOTDOT}
          /\ \A w \in {Walk(s, SubSeq(parts, 1, k), 1, start, start)} :
                /\ w.err = "OK"
                /\ w.target # UNDEF
                /\ s.inodes[w.target].type # "dir"

NotADirectory(s, p) ==
    \A r \in {resolve(s, p)} :
        /\ (r.err = "ENOTDIR") <=> (p # <<>> /\ NameUnderNonDir(s, p))
        /\ r.err = "OK" => s.inodes[r.parent].type = "dir"
        /\ r.err = "ENOTDIR" =>
              /\ mkdir(s, p, now) = Fail(s, "ENOTDIR")
              /\ touch(s, p, now) = Fail(s, "ENOTDIR")
              /\ \A m \in Modes : open(s, p, m, now) = Fail(s, "ENOTDIR")

NoEntryUnderFile(s) ==
    /\ \A i \in DOMAIN s.inodes :
          s.inodes[i].parent # 0 => s.inodes[s.inodes[i].parent].type = "dir"
    /\ \A d \in DOMAIN s.dirs : s.inodes[d].type = "dir"

C30_NotADirectory == NoEntryUnderFile(S) /\ \A p \in Paths : NotADirectory(S, p)

\* a file stands where a path needs a directory: resolve and the creators refuse
C30_Witness ==
    \E p \in NavPaths :
        /\ resolve(S, p).err = "ENOTDIR"
        /\ touch(S, p, now).err = "ENOTDIR"
        /\ \E i \in DOMAIN inodes : inodes[i].type = "file"


(***************************************************************************)
(* C31.  In every reachable state getCurrentPath() returns an absolute     *)
(* path: it starts with "/", has no doubled separator, and resolves back   *)
(* to the current directory, resolve(getCurrentPath()).target.id = cwdId.  *)
(***************************************************************************)
NoDoubleSlash(p) == \A i \in 1..(Len(p) - 1) : ~(p[i] = "/" /\ p[i + 1] = "/")

C31_CurrentPath ==
    \A p \in {getCurrentPath(S)} : \A r \in {resolve(S, p)} :
        /\ StartsWithSlash(p)
        /\ NoDoubleSlash(p)
        /\ r.err = "OK"
        /\ r.target = cwdId


(***************************************************************************)
(* C32.  In every reachable state every inode of type file has size equal  *)
(* to the length of its byte payload, and every inode of type dir has size *)
(* 0 and carries no file or symlink payload; open, write, cleanPayload,    *)
(* touch and mkdir keep it so.                                             *)
(***************************************************************************)
SizeMatches(s) ==
    \A i \in DOMAIN s.inodes :
        IF s.inodes[i].type = "file"
        THEN /\ s.inodes[i].payload.tag = "file"
             /\ s.inodes[i].size = Len(s.inodes[i].payload.file)
        ELSE /\ s.inodes[i].type = "dir"
             /\ s.inodes[i].size = 0
             /\ s.inodes[i].payload = NoPayload

C32_SizeAndPayload ==
    /\ SizeMatches(S)
    /\ \A p \in MixedPaths :
          /\ SizeMatches(mkdir(S, p, now).st)
          /\ SizeMatches(touch(S, p, now).st)
          /\ \A m \in Modes : SizeMatches(open(S, p, m, now).st)
    /\ \A fd \in DOMAIN handles :
          /\ SizeMatches(cleanPayload(S, fd, now).st)
          /\ \A b \in Bufs : \A r \in {write(S, fd, b, now)} :
                /\ SizeMatches(r.st)
                /\ SizeMatches(Await(r.st, TRUE))

\* a written file next to a directory
C32_Witness ==
    /\ \E i \in DOMAIN inodes : inodes[i].type = "file" /\ inodes[i].size = MaxFileLen
    /\ \E i \in DOMAIN inodes : inodes[i].type = "dir" /\ i # 1


(***************************************************************************)
(* C33.  The names "." and ".." are never stored: in every reachable state *)
(* no entry map has the key "." or ".." and no inode has the name "." or   *)
(* "..", whatever path mkdir, touch or open was called with.               *)
(***************************************************************************)
C33_NoDotNames ==
    /\ \A d \in DOMAIN dirs : ~MapHas(dirs[d], DOT) /\ ~MapHas(dirs[d], DOTDOT)
    /\ \A i \in DOMAIN inodes : inodes[i].name \notin {DOT, DOTDOT}

(***************************************************************************)
(* C34.  Directory bindings are stable: once an entry map binds a name to  *)
(* an inode id, no later operation changes or removes that binding, and    *)
(* every inode made stays the value of the entry under which it was made,  *)
(* the entry of its name in the map of its parent, so that no inode        *)
(* becomes unreachable from the root.                                      *)
(***************************************************************************)
BindingsKept ==
    \A d \in DOMAIN dirs :
        /\ d \in DOMAIN dirs'
        /\ \A k \in 1..Len(dirs[d]) :
              /\ MapHas(dirs'[d], dirs[d][k].name)
              /\ MapGet(dirs'[d], dirs[d][k].name) = dirs[d][k].id

BoundWhereMade ==
    \A i \in DOMAIN inodes :
        i # 1 =>
            /\ inodes[i].parent \in DOMAIN dirs
            /\ MapHas(dirs[inodes[i].parent], inodes[i].name)
            /\ MapGet(dirs[inodes[i].parent], inodes[i].name) = i

C34_StableBindings == []BoundWhereMade /\ [][BindingsKept]_vars


(***************************************************************************)
(* C35.  In every reachable state, and in the state right after bootstrap  *)
(* restored a snapshot persisted through either driver, the dirs table has *)
(* an entry map for exactly the ids of the inodes of type dir, so that     *)
(* mkdir, touch and open for writing under an existing directory succeed.  *)
(***************************************************************************)
MapsForDirs(s) == DOMAIN s.dirs = {i \in DOMAIN s.inodes : s.inodes[i].type = "dir"}

CreatorsSucceed(s) ==
    \A p \in PersistPaths : \A r \in {resolve(s, p)} :
        (r.err = "OK" /\ r.target = UNDEF) =>
            /\ mkdir(s, p, now).err = "OK"
            /\ touch(s, p, now).err = "OK"
            /\ open(s, p, <<"w">>, now).err = "OK"

C35_MapsForDirs ==
    \A B \in {create(S, now)} :
        /\ MapsForDirs(S)
        /\ CreatorsSucceed(S)
        /\ MapsForDirs(B)
        /\ CreatorsSucceed(B)


(***************************************************************************)
(* C36.  Each VFS instance owns its inode store: once instance B has been  *)
(* created from a backend, a write, read, open or cd on instance A, which  *)
(* shares that backend, changes no inode field or payload seen through B   *)
(* (B's entry maps are B's own copies), and the snapshot the backend holds *)
(* changes only when flushDelta is called.                                 *)
(***************************************************************************)
\* the call on A that gave r changed nothing B sees, nor the stored snapshot unless
\* it called flushDelta
Isolated(B, r) ==
    /\ ObservedInodes(B, r.st) = B.inodes
    /\ r.st.pending = pending => LoadFS(r.st) = LoadFS(S)

C36_InstancesIsolated ==
    \A B \in {create(S, now)} :
        /\ \A fd \in DOMAIN handles :
              /\ \A b \in Bufs : Isolated(B, write(S, fd, b, now))
              /\ \A n \in ReadSizes : Isolated(B, read(S, fd, n, now))
        /\ \A p \in PersistPaths :
              /\ Isolated(B, cd(S, p, now))
              /\ \A m \in Modes : Isolated(B, open(S, p, m, now))


(***************************************************************************)
(* C37.  In every reachable state cwdId is the id of an existing inode of  *)
(* type dir, and the inodeId of every live handle is the id of an existing *)
(* inode of type file, its offset being at least 0; a cd that fails leaves *)
(* cwdId as it was.                                                        *)
(***************************************************************************)
CwdAndHandles(s) ==
    /\ s.cwdId \in DOMAIN s.inodes
    /\ s.inodes[s.cwdId].type = "dir"
    /\ \A fd \in DOMAIN s.handles :
          /\ s.handles[fd].inodeId \in DOMAIN s.inodes
          /\ s.inodes[s.handles[fd].inodeId].type = "file"
          /\ s.handles[fd].offset >= 0

C37_CwdAndHandles ==
    /\ CwdAndHandles(S)
    /\ \A p \in TreePaths : \A r \in {cd(S, p, now)} :
          /\ r.err # "OK" => r.st.cwdId = cwdId
          /\ CwdAndHandles(r.st)

\* inside a directory, with a handle that has moved, a cd to a file fails
C37_Witness ==
    /\ cwdId # 1
    /\ \E fd \in DOMAIN handles : handles[fd].offset > 0
    /\ \E p \in TreePaths : LET r == resolve(S, p) IN
          /\ r.err = "OK" /\ r.target # UNDEF /\ inodes[r.target].type = "file"
          /\ cd(S, p, now).err = "ENOENT"


(***************************************************************************)
(* C38.  flush() and sync() with both dirty sets empty are no-ops: they    *)
(* call no backend and change no state; so a second sync() right after a   *)
(* sync() that succeeded, with no operation in between, does not call      *)
(* flushDelta.                                                             *)
(***************************************************************************)
Clean(s) == s.dirtyInodes = {} /\ s.dirtyDirs = {}

C38_EmptyFlushNoOp ==
    /\ Clean(S) => (sync(S) = Fail(S, "OK") /\ flush(S, "sync", 0, 0) = Fail(S, "OK"))
    /\ \A s1 \in {Await(sync(S).st, TRUE)} :
          /\ Clean(s1)
          /\ sync(s1) = Fail(s1, "OK")

\* something was persisted on IndexedDB, nothing is dirty, nothing is in flight,
\* and a sync() starts no backend call
C38_Witness ==
    /\ driver.kind = "idb"
    /\ nextInodeId > 2
    /\ Clean(S)
    /\ Quiet
    /\ sync(S).st.pending = <<>>

====
